---- MODULE Spec2Model ----
(***************************************************************************)
(* Model of app.py, the Streamlit "Video Q&A with Gemini" script.          *)
(*                                                                         *)
(* The script is re-executed from top to bottom on every widget event.     *)
(* The session fields (st.session_state) survive between executions; the   *)
(* script's locals do not.  One execution is modelled as a sequence of     *)
(* steps, pc naming the statement the execution is at; pc = "idle" is the  *)
(* state between two executions, where the next widget event is awaited.   *)
(* A widget event that arrives while an execution is under way does not    *)
(* wait for its end: the script runner asks the script thread to stop and  *)
(* starts the next execution.  The stop is raised in the old thread at its *)
(* next st.* call or access to st.session_state; until then it runs on,    *)
(* beside the new execution, without changing the session any more.        *)
(* The page goes on showing the widgets earlier executions drew until the  *)
(* execution under way draws them anew or ends, and they take events       *)
(* meanwhile: a question or a click can start an execution that has to     *)
(* ingest a file first.                                                    *)
(* The remote service behind client.files and client.models is the         *)
(* environment: every answer it can give, or an exception, is a choice of  *)
(* the step that calls it.                                                 *)
(***************************************************************************)
EXTENDS Integers, Sequences, FiniteSets, TLC

\* ---------------------------------------------------------------- bounds

\* Longest transcript a question is still accepted at (bounds the state space).
MaxTurns == 4
\* Number of status fetches after which the remote service stops answering
\* "processing".
MaxPolls == 2
\* Number of distinct handle identities the remote service hands out.
MaxHandles == 2
\* Largest k for which a token count of 263 * k is reported.
MaxK == 10
\* Number of stopped executions that may be inside process_video at a time.
MaxOldRuns == 1

\* ------------------------------------------------------------- constants

\* app.py:111, tokens per second of video.
TokensPerSecond == 263

\* ---------------------------------------------------------------- values

\* uploaded_file.name of the files the user can put into the uploader.
FileNames == {"a.mp4", "b.mp4"}
\* Contents of an uploaded file.
FileBytes == {1, 2}
\* Texts typed into the chat input.
Queries == {"q1", "q2"}
\* Texts the remote model answers with.
Answers == {"ans"}
\* The fixed diagnostic prompt of the "Check Video Vision" button.
DebugPrompt == "List the timestamps"

\* File.state.name as the remote service may report it.  The script names
\* "PROCESSING" and "FAILED" (app.py:52, 56); "READY" stands for the status
\* of a file that can be used in requests and "UPLOADING" for the status of
\* one whose processing has not started.
Statuses == {"UPLOADING", "PROCESSING", "READY", "FAILED"}

\* None, for each type that is nullable in the script.
NoName == "None"
NoHandle == [id |-> 0, state |-> "None"]
NoFile == [name |-> NoName, bytes |-> 0]
NoQuery == "None"
NoText == "None"
NoNumber == -1

HandleIds == 1..MaxHandles
Handles == [id : HandleIds, state : Statuses]
Files == [name : FileNames, bytes : FileBytes]

VARIABLES
    \* st.session_state
    chat_history, processed_video, current_file_name,
    \* widget values of the execution under way
    api_key, uploaded_file, button, user_query,
    \* widgets drawn by the execution under way (or by the last one, when idle)
    rendered,
    \* widgets drawn by earlier executions that the page still shows: the
    \* execution under way has not drawn them anew and has not ended
    stale,
    \* position of the execution
    pc,
    \* whether the execution under way (or the last one, when idle) was ended
    \* by the script runner's stop, raised at a st.* call of the script
    stopped,
    \* locals of process_video
    video_file, tmp_exists, polls,
    \* locals of the script
    total_tokens, est_seconds, debug_response, answer,
    \* content of the file the remote service last received
    remote_bytes,
    \* requests sent to the remote service by the execution under way
    calls,
    \* how the last call of process_video ended ("raised" also when a widget
    \* event has stopped its execution), and whether a failed one has not yet
    \* been followed by one whose file reached READY
    ingest_exit, failed_pending,
    \* the executions that were stopped by a widget event while inside
    \* process_video and have not left it yet, each with its staging file
    old_runs

session == <<chat_history, processed_video, current_file_name>>
widgets == <<api_key, uploaded_file, button, user_query>>
ingest_locals == <<video_file, tmp_exists, polls>>
script_locals == <<total_tokens, est_seconds, debug_response, answer>>
history == <<ingest_exit, failed_pending>>
vars == <<chat_history, processed_video, current_file_name, api_key,
          uploaded_file, button, user_query, rendered, pc, video_file,
          tmp_exists, polls, total_tokens, est_seconds, debug_response, answer,
          remote_bytes, calls,
          ingest_exit, failed_pending, stopped, old_runs, stale>>

\* ------------------------------------------------------------ pure parts

\* f"{num / den:.2f}" for non-negative integers, as a number of hundredths:
\* the quotient rounded to the nearest hundredth (no quotient by 263 lies
\* halfway between two hundredths).
Format2f(num, den) == (2 * 100 * num + den) \div (2 * den)

\* EstSeconds, cutting the quotient off after the second decimal.
EstSecondsTruncated(tokens) == (100 * tokens) \div TokensPerSecond

\* app.py:111-112, est_seconds as it is displayed, in hundredths of a second.
EstSeconds(tokens) == Format2f(tokens, TokensPerSecond)

\* The token count the remote service reports in the main specification
\* (the inspector is checked for every count under SpecEst).
TokenSamples == {100}

\* One request to the remote service.
Call(op, handle, prompt) == [op |-> op, handle |-> handle, prompt |-> prompt]

\* ----------------------------------------------------------------- Init

\* app.py:15-28: the first execution of the script in a new session, about
\* to test the (empty) API key.
Init ==
    /\ chat_history = <<>>
    /\ processed_video = NoHandle
    /\ current_file_name = NoName
    /\ api_key = FALSE
    /\ uploaded_file = NoFile
    /\ button = FALSE
    /\ user_query = NoQuery
    /\ rendered = {}
    /\ pc = "check_key"
    /\ video_file = NoHandle
    /\ tmp_exists = FALSE
    /\ polls = 0
    /\ total_tokens = NoNumber
    /\ est_seconds = NoNumber
    /\ debug_response = NoText
    /\ answer = NoText
    /\ remote_bytes = 0
    /\ calls = <<>>
    /\ ingest_exit = "none"
    /\ failed_pending = FALSE
    /\ stopped = FALSE
    /\ old_runs = <<>>
    /\ stale = {}

\* ------------------------------------------------------ the script body

\* An exception nothing in the script catches ends the execution.
Abort == pc' = "idle"

\* The page after a step of the script: a widget the execution draws takes
\* the place of the one an earlier execution drew, and when the execution
\* ends, by its last statement or by an exception, the page drops what it
\* did not draw.  An execution stopped for a widget event leaves the page
\* as it is: the execution of that event goes on drawing.
Redraw ==
    stale' = IF pc' = "idle" /\ ~stopped' THEN {} ELSE stale \ rendered'

\* app.py:73-77 and 167-168.  Without a key the execution ends at line 168
\* and has not called st.file_uploader: at the end of an execution Streamlit
\* discards the value of every widget the execution did not call, so the
\* uploader, when it is drawn again, is empty.
CheckKey ==
    /\ pc = "check_key"
    /\ IF api_key
         THEN /\ rendered' = rendered \cup {"uploader"}
              /\ pc' = "check_upload"
              /\ UNCHANGED uploaded_file
         ELSE /\ rendered' = rendered
              /\ pc' = "idle"
              /\ uploaded_file' = NoFile
    /\ UNCHANGED <<stopped, session, api_key, button, user_query,
                   ingest_locals, script_locals, calls, remote_bytes, history,
                   old_runs>>
    /\ Redraw

\* IsNewFile, taking a file for new as long as none has been processed.
IsNewFileOrNoVideo ==
    \/ current_file_name # uploaded_file.name
    \/ processed_video = NoHandle

\* app.py:81, the new-file test.
IsNewFile == current_file_name # uploaded_file.name

\* ResetSession, leaving the transcript as it is.
ResetSessionKeepingHistory ==
    /\ processed_video' = NoHandle
    /\ chat_history' = chat_history
    /\ current_file_name' = uploaded_file.name

\* app.py:83-85, the state is reset for the new file.
ResetSession ==
    /\ processed_video' = NoHandle
    /\ chat_history' = <<>>
    /\ current_file_name' = uploaded_file.name

\* app.py:83-85, the reset is three assignments to st.session_state, each
\* of them a point where the runner's stop is raised: stopped at line 84
\* the handle alone has been cleared, stopped at line 85 the handle and the
\* transcript; the identity is still the old one.
ResetStopped ==
    /\ processed_video' = NoHandle
    /\ chat_history' \in {chat_history, <<>>}
    /\ current_file_name' = current_file_name

\* app.py:79-85.
CheckUpload ==
    /\ pc = "check_upload"
    /\ IF uploaded_file # NoFile /\ IsNewFile
         THEN \/ /\ ResetSession
                 /\ ingest_exit' = "running"
                 /\ pc' = "tmp_create"
                 /\ stopped' = stopped
              \/ /\ ResetStopped
                 /\ Abort
                 /\ stopped' = TRUE
                 /\ UNCHANGED ingest_exit
         ELSE /\ UNCHANGED <<session, ingest_exit, stopped>>
              /\ pc' = "chat_gate"
    /\ UNCHANGED <<widgets, rendered, ingest_locals, script_locals, calls,
                   remote_bytes, failed_pending, old_runs>>
    /\ Redraw

\* --------------------------------------------------------- process_video

\* app.py:88, 119 and 145, a with st.spinner block is left: the spinner
\* takes its message off the page, which is a st.* call like any other, so
\* the runner's stop is raised there when a widget event has arrived, also
\* in place of an exception that is leaving the block.
SpinnerExit == stopped' \in {stopped, TRUE}

\* app.py:39, NamedTemporaryFile(delete=False) creates the staging file,
\* or raises (no temporary directory, no space, no descriptor left): no
\* staging file then, and the exception, raised before the try of line 43,
\* ends the execution.
TmpCreate ==
    /\ pc = "tmp_create"
    /\ \/ /\ tmp_exists' = TRUE
          /\ pc' = "tmp_write"
          /\ UNCHANGED history
          /\ UNCHANGED stopped
       \/ /\ Abort
          /\ ingest_exit' = "raised"
          /\ failed_pending' = TRUE
          /\ SpinnerExit
          /\ UNCHANGED tmp_exists
    /\ UNCHANGED <<session, widgets, rendered, video_file, polls,
                   script_locals, calls, remote_bytes, old_runs>>
    /\ Redraw

\* app.py:40-41, the uploaded bytes are written to the staging file.  The
\* with block closes the file and, delete being False, leaves it on disk;
\* the write is outside the try of line 43, so an exception it raises leaves
\* process_video without passing through the finally of line 65.
TmpWrite ==
    /\ pc = "tmp_write"
    /\ \/ /\ pc' = "upload"
          /\ UNCHANGED <<history, stopped>>
       \/ /\ Abort
          /\ ingest_exit' = "raised"
          /\ failed_pending' = TRUE
          /\ SpinnerExit
    /\ UNCHANGED <<session, widgets, rendered, ingest_locals, script_locals,
                   calls, remote_bytes, old_runs>>
    /\ Redraw

\* app.py:65-68, the finally clause of process_video.
Cleanup == tmp_exists' = FALSE

\* An exception raised inside the try of process_video: the finally clause
\* runs and the exception ends the execution of the script; line 90 is not
\* reached.
IngestRaise ==
    /\ Cleanup
    /\ Abort
    /\ ingest_exit' = "raised"
    /\ failed_pending' = TRUE
    /\ UNCHANGED <<session, video_file, polls>>

\* app.py:44-51, client.files.upload: the request is sent and the remote
\* service receives the file, or the request raises.  A widget event that
\* arrives while the request is under way is taken up in the state before
\* the step (StartRun at upload): the request is then that of a stopped
\* execution and reaches the remote service later, if at all (OldUpload).
Upload ==
    /\ pc = "upload"
    /\ calls' = Append(calls, Call("upload", NoHandle, NoText))
    /\ \/ /\ \E h \in Handles : video_file' = h
          /\ remote_bytes' = uploaded_file.bytes
          /\ pc' = "poll"
          /\ UNCHANGED <<session, tmp_exists, polls, history, stopped>>
       \/ /\ IngestRaise
          /\ SpinnerExit
          /\ UNCHANGED remote_bytes
    /\ UNCHANGED <<widgets, rendered, script_locals, old_runs>>
    /\ Redraw

\* app.py:52, the loop test.
StillProcessing == video_file.state = "PROCESSING"

\* Statuses the remote service reports at the fetch made after n earlier ones.
FetchStatuses(n) ==
    IF n + 1 < MaxPolls THEN Statuses ELSE Statuses \ {"PROCESSING"}

\* app.py:52-54, one turn of the loop: the test, time.sleep(2) and
\* client.files.get by the file's name.  The wait changes nothing the
\* script can see; a widget event that falls into it is taken up in the
\* state before the turn or in the state after it (StartRun).
Poll ==
    /\ pc = "poll"
    /\ StillProcessing
    /\ calls' = Append(calls, Call("get", video_file, NoText))
    /\ \/ /\ \E st \in FetchStatuses(polls) :
                video_file' = [id |-> video_file.id, state |-> st]
          /\ polls' = polls + 1
          /\ pc' = "poll"
          /\ UNCHANGED <<session, tmp_exists, history, stopped>>
       \/ /\ IngestRaise
          /\ SpinnerExit
    /\ UNCHANGED <<widgets, rendered, script_locals, remote_bytes, old_runs>>
    /\ Redraw

\* app.py:56-63, what process_video returns.
IngestResult == IF video_file.state = "FAILED" THEN NoHandle ELSE video_file

\* app.py:56-68: the loop is left and process_video returns through its
\* finally clause.  The wait of line 61 lies between two st.* calls of this
\* step; a widget event that falls into it is taken up in the state before
\* the step (StartRun at poll), the staging file still on disk.
Finish ==
    /\ pc = "poll"
    /\ ~StillProcessing
    /\ Cleanup
    /\ ingest_exit' = IF video_file.state = "FAILED" THEN "failed"
                                                     ELSE "returned"
    /\ failed_pending' = CASE video_file.state = "FAILED" -> TRUE
                           [] video_file.state = "READY" -> FALSE
                           [] OTHER -> failed_pending
    /\ pc' = "store"
    /\ UNCHANGED <<stopped, session, widgets, rendered, video_file, polls,
                   script_locals, calls, remote_bytes, old_runs>>
    /\ Redraw

\* app.py:90, the result of process_video is stored.
Store ==
    /\ pc = "store"
    /\ processed_video' = IngestResult
    /\ pc' = "chat_gate"
    /\ UNCHANGED <<stopped, chat_history, current_file_name, widgets,
                   rendered, ingest_locals, script_locals, calls,
                   remote_bytes, history, old_runs>>
    /\ Redraw

\* -------------------------------------------------------- chat interface

\* HasVideo, taking a file in the uploader for a processed one.
HasVideoOrUpload == processed_video # NoHandle \/ uploaded_file # NoFile

\* HasVideo, asking for a file in the uploader as well.
HasVideoAndUpload == processed_video # NoHandle /\ uploaded_file # NoFile

\* app.py:93, the truth value of st.session_state.processed_video.
HasVideo == processed_video # NoHandle

\* app.py:93 and 162-165.
ChatGate ==
    /\ pc = "chat_gate"
    /\ pc' = IF HasVideo THEN "count" ELSE "idle"
    /\ UNCHANGED <<session, widgets, rendered, ingest_locals, script_locals,
                   calls, remote_bytes, history, stopped, old_runs>>
    /\ Redraw

\* app.py:99-115, the video inspector: count_tokens, caught when it raises.
\* st.write of line 107 lies between the two assignments: when the runner's
\* stop is raised there (it is no Exception, line 114 does not catch it),
\* total_tokens is set and est_seconds is not.
CountTokensFrom(counts) ==
    /\ pc = "count"
    /\ calls' = Append(calls, Call("count_tokens", processed_video, NoText))
    /\ \/ /\ \E n \in counts :
                /\ total_tokens' = n
                /\ est_seconds' = EstSeconds(n)
          /\ pc' = "debug"
          /\ stopped' = stopped
       \/ /\ UNCHANGED <<total_tokens, est_seconds>>
          /\ pc' = "debug"
          /\ stopped' = stopped
       \/ /\ \E n \in counts : total_tokens' = n
          /\ UNCHANGED est_seconds
          /\ Abort
          /\ stopped' = TRUE
    /\ UNCHANGED <<session, widgets, rendered, ingest_locals, debug_response,
                   answer, remote_bytes, history, old_runs>>
    /\ Redraw

CountTokens == CountTokensFrom(TokenSamples)

\* app.py:141.
AppendTurn(role, text) == chat_history' = Append(chat_history, <<role, text>>)

\* OnDebugResponse, keeping the text in the transcript as well.
OnDebugResponseAppended(text) ==
    /\ debug_response' = text
    /\ AppendTurn("assistant", text)

\* app.py:120-127, the text the model answers the debug prompt with is
\* shown in the sidebar.
OnDebugResponse(text) ==
    /\ debug_response' = text
    /\ UNCHANGED chat_history

\* app.py:118-127, the button and, when it was clicked, the debug prompt;
\* an exception of generate_content is not caught here and leaves the
\* spinner block of line 119.  The last outcome is the runner's stop raised
\* at st.spinner (line 119): the button is drawn and no request sent.
DebugVision ==
    /\ pc = "debug"
    /\ rendered' = rendered \cup {"button"}
    /\ IF button
         THEN \/ /\ calls' = Append(calls, Call("generate_content",
                                                 processed_video, DebugPrompt))
                 /\ \/ /\ \E text \in Answers : OnDebugResponse(text)
                       /\ pc' = "chat"
                       /\ stopped' = stopped
                    \/ /\ Abort
                       /\ UNCHANGED <<debug_response, chat_history>>
                       /\ SpinnerExit
              \/ /\ calls' = calls
                 /\ Abort
                 /\ stopped' = TRUE
                 /\ UNCHANGED <<debug_response, chat_history>>
         ELSE /\ calls' = calls
              /\ pc' = "chat"
              /\ UNCHANGED <<debug_response, chat_history, stopped>>
    /\ UNCHANGED <<processed_video, current_file_name, widgets, ingest_locals,
                   total_tokens, est_seconds, answer, remote_bytes, history,
                   old_runs>>
    /\ Redraw

\* app.py:130-141, the transcript is shown, the chat input drawn and a
\* submitted question appended.  The last outcome is the runner's stop
\* raised at line 139, 140 or 141: the chat input is drawn and the question
\* not appended.
ChatInput ==
    /\ pc = "chat"
    /\ rendered' = rendered \cup {"chat"}
    /\ IF user_query # NoQuery
         THEN \/ /\ AppendTurn("user", user_query)
                 /\ pc' = "generate"
                 /\ stopped' = stopped
              \/ /\ UNCHANGED chat_history
                 /\ Abort
                 /\ stopped' = TRUE
         ELSE /\ UNCHANGED <<chat_history, stopped>>
              /\ pc' = "idle"
    /\ UNCHANGED <<processed_video, current_file_name, widgets, ingest_locals,
                   script_locals, calls, remote_bytes, history, old_runs>>
    /\ Redraw

\* app.py:156-158, the answer is kept.
OnAnswer(a) ==
    /\ answer' = a
    /\ AppendTurn("assistant", a)

\* OnGenerateError, keeping the error message as the assistant's turn.
OnGenerateErrorAppended ==
    /\ answer' = answer
    /\ AppendTurn("assistant", "error")

\* OnGenerateError, taking the unanswered question back out of the
\* transcript.
OnGenerateErrorRollback ==
    /\ answer' = answer
    /\ chat_history' = SubSeq(chat_history, 1, Len(chat_history) - 1)

\* app.py:159-160, the exception is shown.
OnGenerateError == UNCHANGED <<answer, chat_history>>

\* AskRequest, sending the question that opened the conversation in place
\* of the current one.
AskRequestFirstQuery ==
    Call("generate_content", processed_video, chat_history[1][2])

\* app.py:149-155, the request of an ask: the stored file and the question.
AskRequest == Call("generate_content", processed_video, user_query)

\* app.py:156-157, the answer has been received and a widget event has
\* arrived while generate_content was awaited: st.markdown(answer), or the
\* access to st.session_state of line 158, raises the script runner's stop,
\* which except Exception (line 159) does not catch, and nothing is appended.
OnAnswerStopped(a) ==
    /\ answer' = a
    /\ chat_history' = chat_history
    /\ stopped' = TRUE

\* app.py:159-160, generate_content has raised and a widget event has arrived
\* while it was awaited: st.error raises the script runner's stop.
OnGenerateErrorStopped ==
    /\ answer' = answer
    /\ chat_history' = chat_history
    /\ stopped' = TRUE

\* app.py:144-160, generate_content with the stored file and the question.
\* The answer is appended at line 158 inside the spinner block of line 145,
\* whose exit may still raise the runner's stop.
Generate ==
    /\ pc = "generate"
    /\ calls' = Append(calls, AskRequest)
    /\ \/ /\ \E a \in Answers : OnAnswer(a)
          /\ SpinnerExit
       \/ /\ OnGenerateError
          /\ stopped' = stopped
       \/ /\ \E a \in Answers : OnAnswerStopped(a)
       \/ /\ OnGenerateErrorStopped
    /\ pc' = "idle"
    /\ UNCHANGED <<processed_video, current_file_name, widgets, rendered,
                   ingest_locals, total_tokens, est_seconds, debug_response,
                   remote_bytes, history, old_runs>>
    /\ Redraw

\* ---------------------------------------------------- the runner's stop

\* Positions whose next statement is a st.* call or an access to
\* st.session_state, where the script runner raises its stop when a widget
\* event has arrived since the execution began: app.py:9-28 and 74-77
\* (check_key), 81 and 93 (check_upload), 88 (tmp_create), 44-45 (upload),
\* 51 before the loop and 57, 60 and 62 after it (poll; the loop of lines
\* 52-54 calls nothing of st), 90 (store), 93 and 96-104 or 162-165
\* (chat_gate, count), 112-118 (debug), 127-135 (chat) and 144-152
\* (generate).
StopPoint ==
    \/ pc \in {"check_key", "check_upload", "tmp_create", "upload", "store",
               "chat_gate", "count", "debug", "chat", "generate"}
    \/ pc = "poll" /\ (polls = 0 \/ ~StillProcessing)

\* app.py:44-62, the stop is raised inside the try of process_video, at
\* status_placeholder.info, .error, .success or .empty: an event that
\* arrived during the upload, a fetch or a time.sleep (lines 53, 61) shows
\* here.  The finally clause removes the staging file, nothing is returned
\* and line 90 is not reached, whatever the last status.
StopIngest ==
    /\ StopPoint
    /\ pc \in {"upload", "poll"}
    /\ IngestRaise
    /\ stopped' = TRUE
    /\ UNCHANGED <<widgets, rendered, script_locals, calls, remote_bytes,
                   old_runs>>
    /\ Redraw

\* app.py:88, the stop is raised at st.spinner, after the reset of lines
\* 83-85 and before process_video is entered: no staging file is created
\* and no handle stored.
StopSpinner ==
    /\ StopPoint
    /\ pc = "tmp_create"
    /\ Abort
    /\ ingest_exit' = "raised"
    /\ failed_pending' = TRUE
    /\ stopped' = TRUE
    /\ UNCHANGED <<session, widgets, rendered, ingest_locals, script_locals,
                   calls, remote_bytes, old_runs>>
    /\ Redraw

\* The stop is raised at a st.* call or a st.session_state access outside
\* process_video (at line 90: process_video has returned and its result is
\* not stored); the session fields are as the statements before left them.
StopScript ==
    /\ StopPoint
    /\ pc \notin {"tmp_create", "upload", "poll"}
    /\ Abort
    /\ stopped' = TRUE
    /\ UNCHANGED <<session, widgets, rendered, ingest_locals, script_locals,
                   calls, remote_bytes, history, old_runs>>
    /\ Redraw

\* ------------------------------------------------------- widget events

\* What is left to do for a stopped execution that is not in the loop of
\* lines 52-54: the finally clause, once its next st.* call (line 44, 51,
\* 57, 60 or 62) has raised the stop.  Its locals are not read again.
FinallyRun == [pc |-> "finally", polls |-> 0, bytes |-> 0]

\* The stopped executions the execution under way may become when a widget
\* event arrives while it is inside process_video: in the loop it goes on
\* fetching, elsewhere (and at polls = 0, where it may still be at line 48
\* or 51) only its finally clause is left, and at upload its request may
\* be on the way to the remote service (line 48).  Of its locals the number
\* of fetches made is kept, which bounds those to come (FetchStatuses), and
\* the content it uploads.
Residue ==
    CASE pc = "poll" /\ StillProcessing ->
           {[pc |-> "poll", polls |-> polls, bytes |-> 0]}
           \cup (IF polls = 0 THEN {FinallyRun} ELSE {})
      [] pc = "upload" ->
           {[pc |-> "upload", polls |-> 0, bytes |-> uploaded_file.bytes],
            FinallyRun}
      [] OTHER -> {FinallyRun}

\* What becomes of the execution under way when a widget event arrives.
\* With runner.fastReruns, Streamlit's default, the runner asks the script
\* thread to stop and the session no longer takes what it writes; the
\* thread itself runs on to its next st.* call.  Inside process_video, from
\* the staging file on, that leaves a stopped execution with its file on
\* disk (or, when the write of line 40 raises, the file alone).  At
\* tmp_create the thread is at st.spinner (line 88), which raises the stop,
\* or past it: then it creates its staging file as if nothing had happened
\* and is stopped at line 44, unless line 39 or 40 raises before.  Elsewhere
\* the next statement is the call that raises the stop.  A token-count or
\* generation request in flight when the event arrives changes nothing at
\* the remote service and counts as sent before it.
Abandon ==
    CASE pc \in {"tmp_write", "upload", "poll"} ->
           /\ ingest_exit' = "raised"
           /\ failed_pending' = TRUE
           /\ \/ /\ Len(old_runs) < MaxOldRuns
                 /\ \E r \in Residue : old_runs' = Append(old_runs, r)
                 /\ tmp_exists' = FALSE
              \/ /\ pc = "tmp_write"
                 /\ UNCHANGED <<old_runs, tmp_exists>>
      [] pc = "tmp_create" ->
           /\ ingest_exit' = "raised"
           /\ failed_pending' = TRUE
           /\ \/ UNCHANGED <<old_runs, tmp_exists>>
              \/ /\ Len(old_runs) < MaxOldRuns
                 /\ old_runs' = Append(old_runs, FinallyRun)
                 /\ UNCHANGED tmp_exists
              \/ /\ tmp_exists' = TRUE
                 /\ UNCHANGED old_runs
      [] OTHER -> UNCHANGED <<old_runs, tmp_exists, history>>

\* A widget event starts a new execution of the script with the widget
\* values given, at once: nothing in the script makes it wait for the end
\* of the execution under way, which is stopped (Abandon).  The new
\* execution has its own locals; what the page shows stays until the new
\* execution draws it anew or ends.
StartRun(key, file, btn, query) ==
    /\ api_key' = key
    /\ uploaded_file' = file
    /\ button' = btn
    /\ user_query' = query
    /\ rendered' = {}
    /\ calls' = <<>>
    /\ video_file' = NoHandle
    /\ polls' = 0
    /\ total_tokens' = NoNumber
    /\ est_seconds' = NoNumber
    /\ debug_response' = NoText
    /\ answer' = NoText
    /\ pc' = "check_key"
    /\ stopped' = FALSE
    /\ stale' = stale \cup rendered
    /\ Abandon
    /\ UNCHANGED <<session, remote_bytes>>

\* app.py:15, the API key is typed in or cleared.
SetApiKey == StartRun(~api_key, uploaded_file, FALSE, NoQuery)

\* app.py:16-20, another model is selected: the script runs again with the
\* other widgets as they are.
Rerun == StartRun(api_key, uploaded_file, FALSE, NoQuery)

\* The widgets the page shows, drawn by the execution under way or left
\* from an earlier one; a widget takes an event as long as it is shown.
Page == rendered \cup stale

\* app.py:77, a file is put into the uploader.
UploadFile ==
    /\ "uploader" \in Page
    /\ \E f \in Files :
        /\ f # uploaded_file
        /\ StartRun(api_key, f, FALSE, NoQuery)

\* app.py:77, the file is taken out of the uploader.
RemoveFile ==
    /\ "uploader" \in Page
    /\ uploaded_file # NoFile
    /\ StartRun(api_key, NoFile, FALSE, NoQuery)

\* app.py:118, "Check Video Vision" is clicked; the execution it starts
\* takes the click at line 118, if it gets there.
ClickButton ==
    /\ "button" \in Page
    /\ StartRun(api_key, uploaded_file, TRUE, NoQuery)

\* app.py:135, a question is submitted in the chat input; the execution it
\* starts takes it at line 135, if it gets there.  Questions are taken as
\* long as the transcript has room for an exchange (MaxTurns).
SubmitQuery ==
    /\ "chat" \in Page
    /\ Len(chat_history) + 2 <= MaxTurns
    /\ \E q \in Queries : StartRun(api_key, uploaded_file, FALSE, q)

\* --------------------------------------------------- stopped executions

\* s without its i-th element.
Drop(s, i) == SubSeq(s, 1, i - 1) \o SubSeq(s, i + 1, Len(s))

\* app.py:52-57, 60 and 65-68, a stopped execution in the loop: it fetches
\* the status again and goes on while it is PROCESSING; with another status
\* it leaves the loop and its next statement (line 57 or 60) raises the
\* stop, and when the fetch raises the exception ends it: either way the
\* finally clause removes its staging file.  Its requests are not among
\* calls, which are those of the execution under way.
OldPoll ==
    /\ \E i \in 1..Len(old_runs) :
          /\ old_runs[i].pc = "poll"
          /\ \/ \E st \in FetchStatuses(old_runs[i].polls) :
                   old_runs' =
                       IF st = "PROCESSING"
                         THEN [old_runs EXCEPT ![i].polls = @ + 1]
                         ELSE Drop(old_runs, i)
             \/ old_runs' = Drop(old_runs, i)
    /\ UNCHANGED <<session, widgets, rendered, pc, stopped, ingest_locals,
                   script_locals, remote_bytes, calls, history, stale>>

\* app.py:48-51 and 65-68, a stopped execution whose upload request is on
\* its way: the remote service receives the file, after whatever it
\* received from newer executions meanwhile, or the request raises; the
\* stop is raised at line 51, or the exception ends the execution, and the
\* finally clause removes the staging file.
OldUpload ==
    /\ \E i \in 1..Len(old_runs) :
          /\ old_runs[i].pc = "upload"
          /\ old_runs' = Drop(old_runs, i)
          /\ \/ remote_bytes' = old_runs[i].bytes
             \/ UNCHANGED remote_bytes
    /\ UNCHANGED <<session, widgets, rendered, pc, stopped, ingest_locals,
                   script_locals, calls, history, stale>>

\* app.py:65-68, a stopped execution outside the loop: the stop is raised
\* at its next st.* call (after the wait of line 61, when it is there) and
\* the finally clause removes its staging file.
OldCleanup ==
    /\ \E i \in 1..Len(old_runs) :
          /\ old_runs[i].pc = "finally"
          /\ old_runs' = Drop(old_runs, i)
    /\ UNCHANGED <<session, widgets, rendered, pc, stopped, ingest_locals,
                   script_locals, remote_bytes, calls, history, stale>>

\* ---------------------------------------------------------------- Next

Next ==
    \/ SetApiKey
    \/ Rerun
    \/ UploadFile
    \/ RemoveFile
    \/ ClickButton
    \/ SubmitQuery
    \/ CheckKey
    \/ CheckUpload
    \/ TmpCreate
    \/ TmpWrite
    \/ Upload
    \/ Poll
    \/ Finish
    \/ Store
    \/ ChatGate
    \/ CountTokens
    \/ DebugVision
    \/ ChatInput
    \/ Generate
    \/ StopIngest
    \/ StopSpinner
    \/ StopScript
    \/ OldUpload
    \/ OldPoll
    \/ OldCleanup

Spec == Init /\ [][Next]_vars

\* The steps of the script, as opposed to the widget events that start it.
ScriptStep ==
    \/ CheckKey
    \/ CheckUpload
    \/ TmpCreate
    \/ TmpWrite
    \/ Upload
    \/ Poll
    \/ Finish
    \/ Store
    \/ ChatGate
    \/ CountTokens
    \/ DebugVision
    \/ ChatInput
    \/ Generate

\* The steps of the stopped executions.
OldRunStep == OldUpload \/ OldPoll \/ OldCleanup

\* An execution that has been started goes on, stopped or not: a script
\* thread is not suspended between two statements, every remote call
\* returns or raises, and time.sleep(2) ends.  Widget events, and the stops
\* they cause, are under no obligation to occur.
SpecLive == Spec /\ WF_vars(ScriptStep) /\ WF_vars(OldRunStep)

\* ------------------------------------------- the inspector on its own

\* Token counts of the specification of the inspector: every count up to
\* the last one before 263 * (MaxK + 1).
TokenRange == 0..(TokensPerSecond * (MaxK + 1) - 1)

\* A session in state Ready whose execution, started by a change of the
\* model selection, is about to count the tokens of the stored file.
InitEst ==
    /\ chat_history = <<>>
    /\ processed_video = [id |-> 1, state |-> "READY"]
    /\ current_file_name = "a.mp4"
    /\ api_key = TRUE
    /\ uploaded_file = [name |-> "a.mp4", bytes |-> 1]
    /\ button = FALSE
    /\ user_query = NoQuery
    /\ rendered = {"uploader"}
    /\ pc = "count"
    /\ video_file = NoHandle
    /\ tmp_exists = FALSE
    /\ polls = 0
    /\ total_tokens = NoNumber
    /\ est_seconds = NoNumber
    /\ debug_response = NoText
    /\ answer = NoText
    /\ remote_bytes = 1
    /\ calls = <<>>
    /\ ingest_exit = "returned"
    /\ failed_pending = FALSE
    /\ stopped = FALSE
    /\ old_runs = <<>>
    /\ stale = {"button", "chat"}

NextEst == CountTokensFrom(TokenRange)

SpecEst == InitEst /\ [][NextEst]_vars

\* ---------------------------------------------------------- session state

\* Positions inside process_video (app.py:39-63).
IngestPcs == {"tmp_create", "tmp_write", "upload", "poll"}

\* Positions inside the spinner block of app.py:88-90: process_video and
\* the store of its result.
SpinnerPcs == IngestPcs \cup {"store"}

\* Positions inside the chat interface (app.py:94-160).
ChatPcs == {"count", "debug", "chat", "generate"}

\* The session state the script distinguishes by its branches at app.py:88,
\* 93 and 162-165: ingestion under way, a stored handle, a file in the
\* uploader without a handle, or neither.
SessionState ==
    IF pc \in SpinnerPcs THEN "Ingesting"
    ELSE IF processed_video # NoHandle THEN "Ready"
    ELSE IF uploaded_file # NoFile THEN "Failed"
    ELSE "Empty"

\* The step is one of the execution under way: no widget event starts
\* another execution, and no stopped execution moves.
RunStep == pc' # "check_key" /\ old_runs' = old_runs

\* The step is one of the execution under way and the runner's stop is not
\* raised in it.
OwnStep == RunStep /\ ~stopped'

\* The requests of kind op among those sent by the execution under way.
CallsOf(op) == {i \in 1..Len(calls) : calls[i].op = op}

\* ------------------------------------------------------------------ C1

\* C1: every generation request (ask or debugVision) sent to the remote
\* service carries a handle whose status is READY, whatever statuses upload
\* and get report.
C1_GenerationOnlyWithReadyHandle ==
    \A i \in CallsOf("generate_content") : calls[i].handle.state = "READY"

\* ------------------------------------------------------------------ C2

\* C2: ask, inspect and debugVision occur only in session state Ready and
\* with a credential: the execution is inside the chat interface, or has
\* sent a token-count or generation request, only then, and every such
\* request carries the stored, non-null handle.
C2_ChatOnlyInReady ==
    /\ pc \in ChatPcs => api_key /\ SessionState = "Ready"
    /\ \A i \in CallsOf("count_tokens") \cup CallsOf("generate_content") :
          /\ api_key
          /\ SessionState = "Ready"
          /\ calls[i].handle = processed_video
    /\ SessionState \in {"Empty", "Ingesting", "Failed"} \/ ~api_key
          => /\ pc \notin ChatPcs
             /\ CallsOf("count_tokens") \cup CallsOf("generate_content") = {}

\* An ask is under way in state Ready: its question is about to be sent.
C2_Witness ==
    /\ pc = "generate"
    /\ SessionState = "Ready"
    /\ CallsOf("count_tokens") # {}

\* ------------------------------------------------------------------ C3

\* C3: an execution that finds a file in the uploader whose identity differs
\* from the stored one and is not stopped there clears the handle and the
\* transcript and stores the new identity in the step that detects it,
\* before any request for the new file is sent; from the moment the
\* ingestion of the new file begins until its result is stored, the handle
\* is null, the transcript is empty and the stored identity is the new one,
\* and no upload request has been sent before process_video sends its own.
C3_ResetBeforeIngestion ==
    /\ [][(pc = "check_upload" /\ uploaded_file # NoFile
             /\ uploaded_file.name # current_file_name /\ OwnStep)
          => /\ processed_video' = NoHandle
             /\ chat_history' = <<>>
             /\ current_file_name' = uploaded_file.name
             /\ pc' = "tmp_create"
             /\ calls' = <<>>]_vars
    /\ [](pc \in SpinnerPcs
          => /\ processed_video = NoHandle
             /\ chat_history = <<>>
             /\ current_file_name = uploaded_file.name
             /\ (pc \notin {"poll", "store"} => CallsOf("upload") = {}))

\* The ingestion of b.mp4 is about to send its upload request while the
\* remote service still holds the file of an earlier ingestion.
C3_Witness ==
    /\ pc = "upload"
    /\ current_file_name = "b.mp4"
    /\ remote_bytes # 0
    /\ chat_history = <<>>
    /\ processed_video = NoHandle

\* ------------------------------------------------------------------ C4

\* C4: the step that looks at the uploader resets the session exactly when
\* a file is present whose identity differs from the stored one, unless the
\* execution is stopped before the reset has begun; otherwise handle,
\* transcript and identity stay as they are and process_video is not
\* entered, whatever the bytes of the file.  Upload and status requests are
\* sent from inside process_video only, which is entered from that step
\* alone, so an execution that has sent one has reset the session: the
\* stored identity is that of its file and the transcript holds no turn
\* but those of its own question.
C4_ResetIffNewIdentity ==
    /\ [][(pc = "check_upload" /\ RunStep)
          => IF uploaded_file # NoFile
                /\ uploaded_file.name # current_file_name
               THEN \/ /\ processed_video' = NoHandle
                       /\ chat_history' = <<>>
                       /\ current_file_name' = uploaded_file.name
                       /\ pc' \in IngestPcs
                    \/ /\ stopped'
                       /\ session' = session
               ELSE /\ session' = session
                    /\ calls' = calls
                    /\ pc' = "chat_gate" \/ stopped']_vars
    /\ [][(pc \notin IngestPcs /\ pc' \in IngestPcs)
          => pc = "check_upload"]_vars
    /\ [](CallsOf("upload") \cup CallsOf("get") # {}
          => /\ uploaded_file.name = current_file_name
             /\ Len(chat_history) <= 2
             /\ chat_history # <<>>
                   => chat_history[1] = <<"user", user_query>>)

\* ------------------------------------------------------------------ C5

\* C5: after an ingestion that failed (status FAILED, or an exception), and
\* until a later ingestion has reached status READY, the stored handle is
\* null and no ask is under way.
C5_NoAskAfterFailedIngestion ==
    failed_pending
        => /\ processed_video = NoHandle
           /\ pc \notin ChatPcs

\* ------------------------------------------------------------------ C6

\* The last turn of the transcript.
LastTurn == chat_history[Len(chat_history)]

\* C6: an ask that is not stopped before line 141 appends (user, q) to the
\* transcript T without sending a request, and the generation request is
\* sent from the transcript T, (user, q); when the request raises, the
\* transcript, the handle and the identity stay as they are, no assistant
\* turn is added, and the execution ends in state Ready with the chat input
\* drawn.
C6_FailedAskKeepsQuery ==
    /\ [][(pc = "chat" /\ user_query # NoQuery /\ OwnStep)
          => /\ chat_history' = Append(chat_history, <<"user", user_query>>)
             /\ calls' = calls
             /\ pc' = "generate"]_vars
    /\ [](pc = "generate"
          => /\ chat_history # <<>>
             /\ LastTurn = <<"user", user_query>>
             /\ \A i \in CallsOf("generate_content") :
                   calls[i].prompt = DebugPrompt)
    /\ [][(pc = "generate" /\ RunStep /\ answer' = NoText)
          => /\ chat_history' = chat_history
             /\ UNCHANGED <<processed_video, current_file_name>>
             /\ pc' = "idle"
             /\ SessionState' = "Ready"
             /\ "chat" \in rendered']_vars

\* An ask has failed after an earlier exchange: the transcript ends with the
\* question, no answer was received, and the session is Ready and idle.
C6_Witness ==
    /\ pc = "idle"
    /\ ~stopped
    /\ user_query # NoQuery
    /\ answer = NoText
    /\ CallsOf("generate_content") # {}
    /\ Len(chat_history) = 3
    /\ LastTurn = <<"user", user_query>>
    /\ SessionState = "Ready"

\* ------------------------------------------------------------------ C7

\* C7: an ask appends (user, q) to the transcript T, and when its request
\* is answered with the text a the transcript becomes T, (user, q),
\* (assistant, a) while the handle and the identity stay as they are; the
\* first answered ask after an ingestion leaves exactly these two turns.
C7_AnsweredAskAppendsBoth ==
    /\ [][(pc = "chat" /\ user_query # NoQuery /\ OwnStep)
          => /\ chat_history' = Append(chat_history, <<"user", user_query>>)
             /\ processed_video' = processed_video
             /\ current_file_name' = current_file_name]_vars
    /\ [][(pc = "generate" /\ answer' # NoText)
          => /\ LastTurn = <<"user", user_query>>
             /\ answer' \in Answers
             /\ chat_history' = Append(chat_history, <<"assistant", answer'>>)
             /\ processed_video' = processed_video
             /\ current_file_name' = current_file_name]_vars
    /\ [](pc = "idle" /\ answer # NoText /\ Len(chat_history) <= 2
          => chat_history = << <<"user", user_query>>,
                               <<"assistant", answer>> >>)

\* ------------------------------------------------------------------ C8

\* C8: once process_video has been left, on whichever path, the staging
\* file no longer exists.
C8_StagingFileDeleted == pc \notin IngestPcs => ~tmp_exists

\* ------------------------------------------------------------------ C9

\* C9: the steps of the inspector and of the debug prompt leave the handle,
\* the identity and the transcript as they are, whether their request is
\* answered or raises.
C9_InspectionLeavesSession ==
    [][(pc \in {"count", "debug"}) => (session' = session)]_vars

\* With a non-empty transcript, the debug prompt has been answered after
\* the token count had failed.
C9_Witness ==
    /\ pc = "chat"
    /\ button
    /\ total_tokens = NoNumber
    /\ debug_response # NoText
    /\ chat_history # <<>>

\* ------------------------------------------------------------------ C10

\* C10: the estimated duration the inspector shows is the token count
\* divided by 263, to the nearest hundredth of a second: 10.00 for 2630
\* tokens and k.00 for 263 * k tokens; it is shown for every count received
\* by an execution that is not stopped.
C10_EstimatedDuration ==
    /\ est_seconds # NoNumber
        => /\ total_tokens # NoNumber
           /\ 2 * 263 * est_seconds - 2 * 100 * total_tokens \in -263..263
           /\ \A k \in 0..MaxK :
                 total_tokens = 263 * k => est_seconds = 100 * k
           /\ total_tokens = 2630 => est_seconds = 1000
    /\ total_tokens # NoNumber /\ ~stopped => est_seconds # NoNumber

\* The inspector has shown 10.00 seconds for 2630 tokens.
C10_Witness ==
    /\ total_tokens = 2630
    /\ est_seconds = 1000
    /\ pc = "debug"

\* ------------------------------------------------------------------ C11

\* process_video has returned in the execution under way (or in the last
\* one, when idle), and video_file is the last file it obtained.
IngestReturned ==
    /\ pc \notin IngestPcs
    /\ video_file # NoHandle
    /\ ingest_exit \in {"returned", "failed"}

\* C11: process_video returns a handle exactly when the last status it
\* obtained is READY and returns the failure exactly when that status is
\* FAILED, never returns on PROCESSING; the handle returned is stored by
\* line 90 unless the execution is stopped there, and a handle whose last
\* status is FAILED is never stored.
C11_ResultFollowsLastStatus ==
    /\ IngestReturned
          => /\ ingest_exit = "returned" <=> video_file.state = "READY"
             /\ ingest_exit = "failed" <=> video_file.state = "FAILED"
             /\ video_file.state # "PROCESSING"
             /\ ingest_exit = "returned" /\ pc # "store" /\ ~stopped
                   => processed_video = video_file
             /\ ingest_exit = "failed" => processed_video = NoHandle
    /\ processed_video.state # "FAILED"

\* ------------------------------------------------------------------ C12

\* C12: at the loop of process_video a status fetch by the file's identity
\* is made exactly when the last status obtained is PROCESSING, and the
\* loop is left otherwise; the loop itself counts nothing.  With a remote
\* service that reports another status after finitely many fetches,
\* process_video is eventually left, and as long as a call of process_video
\* is in its loop or has otherwise not been left, be it that of the
\* execution under way or that of a stopped one, no widget event of the
\* session is taken up and no token-count or generation request is sent.
C12_PollWhileProcessing ==
    /\ [][(pc = "poll" /\ OwnStep)
          => IF video_file.state = "PROCESSING"
               THEN /\ calls' = Append(calls, Call("get", video_file, NoText))
                    /\ pc' \in {"poll", "idle"}
                    /\ pc' = "poll" => video_file'.id = video_file.id
               ELSE /\ calls' = calls
                    /\ pc' = "store"]_vars
    /\ [][((pc = "poll" /\ polls > 0 /\ video_file.state = "PROCESSING")
              \/ old_runs # <<>>)
          => /\ api_key' = api_key
             /\ button' = button
             /\ user_query' = user_query
             /\ uploaded_file' \in {uploaded_file, NoFile}
             /\ pc' # "check_key"
             /\ CallsOf("count_tokens")' = {}
             /\ CallsOf("generate_content")' = {}]_vars
    /\ (pc \in IngestPcs) ~> (pc \notin IngestPcs)
    /\ (old_runs # <<>>) ~> (old_runs = <<>>)

\* ------------------------------------------------------------------ C13

\* C13: once the ingestion of a file has failed, the handle is null and the
\* stored identity is still that file's, and with a file of this identity
\* in the uploader the session is in state Failed; an execution that finds
\* a file of the same identity in the uploader does not enter process_video
\* and, unless it is stopped first, goes on to the chat interface test with
\* the session as it is, and process_video is entered from state Failed
\* only for a file of another identity.
C13_NoRetryWithSameIdentity ==
    /\ [](ingest_exit \in {"failed", "raised"} /\ pc \notin SpinnerPcs
          => /\ processed_video = NoHandle
             /\ current_file_name # NoName
             /\ uploaded_file.name = current_file_name
                   => SessionState = "Failed")
    /\ [][(ingest_exit \in {"failed", "raised"} /\ pc = "check_upload"
             /\ uploaded_file.name = current_file_name /\ OwnStep)
          => /\ pc' = "chat_gate"
             /\ session' = session
             /\ calls' = calls
             /\ SessionState' = "Failed"]_vars
    /\ [][(SessionState = "Failed" /\ pc' \in IngestPcs)
          => /\ uploaded_file # NoFile
             /\ uploaded_file.name # current_file_name
             /\ current_file_name' = uploaded_file.name]_vars

\* After the ingestion of a file has failed, another file of the same name
\* has been put into the uploader and the execution has passed the new-file
\* test without sending a request.
C13_Witness ==
    /\ pc = "chat_gate"
    /\ ingest_exit = "failed"
    /\ uploaded_file.name = current_file_name
    /\ uploaded_file.bytes # remote_bytes
    /\ processed_video = NoHandle
    /\ calls = <<>>

\* ------------------------------------------------------------------ C14

\* The requests of asks among those sent by the execution under way.
AskCalls == {i \in CallsOf("generate_content") : calls[i].prompt # DebugPrompt}

\* C14: the request of an ask consists of the stored handle and the
\* current question and of nothing else, whatever the transcript holds; it
\* is sent once, after the question has been appended.
C14_AskSendsHandleAndQuery ==
    /\ \A i \in AskCalls :
          /\ calls[i] = [op |-> "generate_content",
                         handle |-> processed_video,
                         prompt |-> user_query]
          /\ user_query \in Queries
    /\ Cardinality(AskCalls) <= 1
    /\ AskCalls # {} => pc = "idle"

\* The question that opened the conversation has been asked a second time,
\* with its first exchange in the transcript, and sent with the same handle.
C14_Witness ==
    /\ AskCalls # {}
    /\ Len(chat_history) = 4
    /\ chat_history[1] = <<"user", "q1">>
    /\ chat_history[3] = <<"user", "q1">>
    /\ user_query = "q1"
    /\ calls[Len(calls)] = Call("generate_content", processed_video, "q1")

\* ------------------------------------------------------------------ C15

\* s is a prefix of t.
IsPrefix(s, t) == Len(s) <= Len(t) /\ SubSeq(t, 1, Len(s)) = s

\* The step is the reset of app.py:83-85 for a file of a new identity, or
\* as much of it as is done before the runner's stop is raised.
IsResetStep ==
    /\ pc = "check_upload"
    /\ uploaded_file # NoFile
    /\ uploaded_file.name # current_file_name
    /\ RunStep

\* C15: in every step that is not the reset for a file of a new identity
\* the transcript before is a prefix of the transcript after; the reset,
\* when the execution is not stopped in it, empties the transcript, and it
\* is the only step that shortens the transcript, to the empty one.
C15_TranscriptAppendOnly ==
    /\ [][~IsResetStep => IsPrefix(chat_history, chat_history')]_vars
    /\ [][(IsResetStep /\ ~stopped') => chat_history' = <<>>]_vars
    /\ [][Len(chat_history') < Len(chat_history)
          => IsResetStep /\ chat_history' = <<>>]_vars

\* Two exchanges have been appended one after the other, for a file that
\* was not the first the remote service received.
C15_Witness ==
    /\ pc = "idle"
    /\ Len(chat_history) = 4
    /\ chat_history[2] = <<"assistant", "ans">>
    /\ chat_history[4] = <<"assistant", "ans">>
    /\ chat_history[1] # chat_history[3]
    /\ current_file_name = "b.mp4"

\* ------------------------------------------------------------------ C16

\* The positions of the turns of the role given.
TurnsOf(role) == {i \in 1..Len(chat_history) : chat_history[i][1] = role}

\* C16: the transcript holds user and assistant turns only, begins with a
\* user turn if it has any, every assistant turn directly follows a user
\* turn, and there are at most as many assistant turns as user turns; a
\* question stays without its assistant turn, so that the next question
\* directly follows it, exactly when the request of its ask has raised:
\* the execution leaves line 144 with the transcript as it was only in a
\* step in which generate_content was sent and gave no answer, and every
\* such step leaves the transcript as it was.
C16_TranscriptWellFormed ==
    /\ [](\A i \in 1..Len(chat_history) :
            /\ chat_history[i][1] \in {"user", "assistant"}
            /\ chat_history[i][1] = "assistant"
                  => i > 1 /\ chat_history[i - 1][1] = "user")
    /\ [](chat_history # <<>> => chat_history[1][1] = "user")
    /\ [](Cardinality(TurnsOf("assistant")) <= Cardinality(TurnsOf("user")))
    /\ [][(pc = "generate" /\ pc' # "generate"
              /\ chat_history' = chat_history)
          => /\ calls' = Append(calls, AskRequest)
             /\ answer' = NoText]_vars
    /\ [][(pc = "generate" /\ calls' = Append(calls, AskRequest)
              /\ answer' = NoText)
          => chat_history' = chat_history]_vars

\* ------------------------------------------------------------------ C17

\* C17: a non-empty transcript comes with a stored handle and a stored
\* handle with a stored identity; in the states Empty, Ingesting and Failed
\* the transcript is empty.
C17_TranscriptNeedsHandle ==
    /\ chat_history # <<>> => processed_video # NoHandle
    /\ processed_video # NoHandle => current_file_name # NoName
    /\ SessionState \in {"Empty", "Ingesting", "Failed"} => chat_history = <<>>

\* ------------------------------------------------------------------ C18

\* C18: an execution that finds no file in the uploader leaves handle,
\* identity and transcript as they are and, unless it is stopped there,
\* goes on to the chat interface test; when it ends in state Ready, not
\* stopped and without the debug button clicked, the chat input has been
\* drawn; and an execution that finds a file of the stored identity does
\* not enter process_video.
C18_RemovedFileKeepsSession ==
    /\ [][(pc = "check_upload" /\ uploaded_file = NoFile /\ OwnStep)
          => /\ session' = session
             /\ calls' = calls
             /\ pc' = "chat_gate"]_vars
    /\ [](/\ pc = "idle"
          /\ ~stopped
          /\ api_key
          /\ uploaded_file = NoFile
          /\ processed_video # NoHandle
          /\ ~button
          => "chat" \in rendered)
    /\ [][(pc = "check_upload" /\ uploaded_file.name = current_file_name)
          => /\ session' = session
             /\ pc' \notin IngestPcs]_vars

\* With no file in the uploader, a question asked on top of an earlier
\* exchange is about to be sent.
C18_Witness ==
    /\ pc = "generate"
    /\ uploaded_file = NoFile
    /\ Len(chat_history) = 3
    /\ processed_video # NoHandle

====
